---- MODULE Spec2Model ----
(***************************************************************************)
(* The protobuf backward-compatibility differ (package diff).              *)
(*                                                                         *)
(* A snapshot is a sequence of FileDescriptorProto records.  diffFiles     *)
(* groups both snapshots by package, walks the previous packages in the    *)
(* order of a Go map iteration (unspecified), and appends one Change per   *)
(* detected problem to a single Report.                                    *)
(*                                                                         *)
(* Go pointers to optional scalars (string, bool, Type) are modelled       *)
(* by the pointee, with Nil for a nil pointer; cmp.Equal on two such       *)
(* pointers is equality of these values.                                   *)
(***************************************************************************)
EXTENDS Integers, Sequences, FiniteSets, Bags, TLC

VARIABLES
    previous,          \* diffFiles' first argument
    current,           \* diffFiles' second argument
    report,            \* report.Changes
    err,               \* the error returned beside the report
    pc,                \* "start" | "packages" | "done"
    prev_by_package,   \* groupByPackage(previous)
    curr_by_package,   \* groupByPackage(current)
    pending,           \* keys of prev_by_package the range loop has not visited
    earlier,           \* <<>>, or <<r>>: the Changes an earlier call returned
    reordered          \* the earlier call saw the same files in another order

vars == <<previous, current, report, err, pc, prev_by_package, curr_by_package,
          pending, earlier, reordered>>

Nil == "nil"

\* ------------------------------------------------------------------ bounds

MaxNumber == 2
MaxRanges == 2
MaxValues == 2
MaxFiles == 2

\* ------------------------------------------------------------ the problems

ProblemRemovedPackage(pkg) == [kind |-> "RemovedPackage", Package |-> pkg]

ProblemRemovedEnum(enum) == [kind |-> "RemovedEnum", Enum |-> enum]

ProblemRemovedService(name) == [kind |-> "RemovedService", Name |-> name]

ProblemRemovedMessage(msg) == [kind |-> "RemovedMessage", Message |-> msg]

ProblemRemovedField(msg, fld) ==
    [kind |-> "RemovedField", Message |-> msg, Field |-> fld]

ProblemChangedFieldName(msg, num, old, new) ==
    [kind |-> "ChangedFieldName", Message |-> msg, Number |-> num,
     OldName |-> old, NewName |-> new]

ProblemChangedFieldType(msg, fld, old, new) ==
    [kind |-> "ChangedFieldType", Message |-> msg, Field |-> fld,
     OldType |-> old, NewType |-> new]

ProblemChangedFieldComplexType(msg, fld, old, new) ==
    [kind |-> "ChangedFieldComplexType", Message |-> msg, Field |-> fld,
     OldType |-> old, NewType |-> new]

ProblemChangedFieldLabel(msg, fld, old, new) ==
    [kind |-> "ChangedFieldLabel", Message |-> msg, Field |-> fld,
     OldLabel |-> old, NewLabel |-> new]

ProblemUnreservedFieldName(msg, name) ==
    [kind |-> "UnreservedFieldName", Message |-> msg, Name |-> name]

ProblemUnreservedFieldNumber(msg, start, end) ==
    [kind |-> "UnreservedFieldNumber", Message |-> msg, Start |-> start,
     End |-> end]

ProblemRemovedEnumValue(enum, name) ==
    [kind |-> "RemovedEnumValue", Enum |-> enum, Name |-> name]

ProblemChangeEnumValue(enum, name, old, new) ==
    [kind |-> "ChangeEnumValue", Enum |-> enum, Name |-> name,
     OldValue |-> old, NewValue |-> new]

ProblemChangeEnumName(enum, num, old, new) ==
    [kind |-> "ChangeEnumName", Enum |-> enum, Number |-> num,
     OldName |-> old, NewName |-> new]

ProblemRemovedServiceMethod(svc, name) ==
    [kind |-> "RemovedServiceMethod", Service |-> svc, Name |-> name]

ProblemChangedService(svc, side, name, old, new) ==
    [kind |-> "ChangedService", Service |-> svc, Side |-> side, Name |-> name,
     OldType |-> old, NewType |-> new]

ProblemChangedServiceStreaming(svc, name, side, old, new) ==
    [kind |-> "ChangedServiceStreaming", Service |-> svc, Name |-> name,
     Side |-> side, OldStream |-> old, NewStream |-> new]

\* ProblemChangedServiceStreaming.String prints p.OldStream != nil and
\* p.NewStream != nil with %t.
StreamingRendered(p) == <<p.OldStream # Nil, p.NewStream # Nil>>

\* ------------------------------------------------------------------ helpers

\* A Go map filled by `for _, v := range s { m[key(v)] = v }`: the keys are
\* those of s, and a later element replaces an earlier one with its key.
\* keys[i] is the key of s[i]; the map is given as key -> index into s.
MapIndex(keys) ==
    [k \in {keys[i] : i \in DOMAIN keys} |->
        CHOOSE i \in DOMAIN keys :
            /\ keys[i] = k
            /\ \A j \in DOMAIN keys : keys[j] = k => j <= i]

Names(s) == [i \in DOMAIN s |-> s[i].Name]

Numbers(s) == [i \in DOMAIN s |-> s[i].Number]

\* cmp.Equal on two pointers to scalars: both nil, or both set to equal values.
CmpEqual(a, b) == a = b

\* r.Changes = append(r.Changes, ch)
Add(changes, ch) == Append(changes, ch)

\* ------------------------------------------------------------- diffFields

hasReserved(message, field) ==
    LET reserved_name ==
            \E i \in DOMAIN message.ReservedName :
                CmpEqual(message.ReservedName[i], field.Name)
        reserved_number ==
            \E i \in DOMAIN message.ReservedRange :
                /\ field.Number >= message.ReservedRange[i].Start
                /\ field.Number <= message.ReservedRange[i].End
    IN  reserved_name /\ reserved_number

\* diffField with the reference-type test as an `if` of its own instead of an
\* `else if`: it also runs when the kinds differ.
diffFieldBothTypes(changes, field, message) ==
    LET curr == MapIndex(Numbers(message.Field))
        exists == field.Number \in DOMAIN curr
        next == message.Field[curr[field.Number]]
        r1 == IF ~CmpEqual(field.Name, next.Name)
              THEN Add(changes, ProblemChangedFieldName(
                       message.Name, field.Number, field.Name, next.Name))
              ELSE changes
        r2a == IF ~CmpEqual(field.Type, next.Type)
               THEN Add(r1, ProblemChangedFieldType(
                        message.Name, field.Name, field.Type, next.Type))
               ELSE r1
        r2 == IF /\ field.TypeName # Nil
                 /\ next.TypeName # Nil
                 /\ ~CmpEqual(field.TypeName, next.TypeName)
              THEN Add(r2a, ProblemChangedFieldComplexType(
                       message.Name, field.Name, field.TypeName,
                       next.TypeName))
              ELSE r2a
        r3 == IF ~CmpEqual(field.Label, next.Label)
              THEN Add(r2, ProblemChangedFieldLabel(
                       message.Name, field.Name, field.Label, next.Label))
              ELSE r2
    IN  IF ~exists
        THEN IF ~hasReserved(message, field)
             THEN Add(changes, ProblemRemovedField(message.Name, field.Name))
             ELSE changes
        ELSE r3

\* The body of diffFields' loop for one previous field.
diffField(changes, field, message) ==
    LET curr == MapIndex(Numbers(message.Field))
        exists == field.Number \in DOMAIN curr
        next == message.Field[curr[field.Number]]
        r1 == IF ~CmpEqual(field.Name, next.Name)
              THEN Add(changes, ProblemChangedFieldName(
                       message.Name, field.Number, field.Name, next.Name))
              ELSE changes
        r2 == IF ~CmpEqual(field.Type, next.Type)
              THEN Add(r1, ProblemChangedFieldType(
                       message.Name, field.Name, field.Type, next.Type))
              ELSE IF /\ field.TypeName # Nil
                      /\ next.TypeName # Nil
                      /\ ~CmpEqual(field.TypeName, next.TypeName)
                   THEN Add(r1, ProblemChangedFieldComplexType(
                            message.Name, field.Name, field.TypeName,
                            next.TypeName))
                   ELSE r1
        r3 == IF ~CmpEqual(field.Label, next.Label)
              THEN Add(r2, ProblemChangedFieldLabel(
                       message.Name, field.Name, field.Label, next.Label))
              ELSE r2
    IN  IF ~exists
        THEN IF ~hasReserved(message, field)
             THEN Add(changes, ProblemRemovedField(message.Name, field.Name))
             ELSE changes
        ELSE r3

diffFields(changes, prev, curr) ==
    LET loop[i \in 0..Len(prev.Field)] ==
            IF i = 0 THEN changes
            ELSE diffField(loop[i - 1], prev.Field[i], curr)
    IN  loop[Len(prev.Field)]

\* ------------------------------------------------------- diffReservedNames

diffReservedName(changes, prev_name, curr) ==
    LET found == \E i \in DOMAIN curr.ReservedName :
                     CmpEqual(prev_name, curr.ReservedName[i])
    IN  IF ~found
        THEN Add(changes, ProblemUnreservedFieldName(curr.Name, prev_name))
        ELSE changes

diffReservedNames(changes, prev, curr) ==
    LET loop[i \in 0..Len(prev.ReservedName)] ==
            IF i = 0 THEN changes
            ELSE diffReservedName(loop[i - 1], prev.ReservedName[i], curr)
    IN  loop[Len(prev.ReservedName)]

\* ----------------------------------------------------- diffReservedNumbers

\* rangeFound with strict comparisons: a range no longer contains itself.
rangeFoundStrict(prev_range, curr) ==
    \E i \in DOMAIN curr.ReservedRange :
        /\ prev_range.Start > curr.ReservedRange[i].Start
        /\ prev_range.End < curr.ReservedRange[i].End

\* rangeFound that accepts a range covered by several current ranges together.
rangeFoundByUnion(prev_range, curr) ==
    \A n \in prev_range.Start..(prev_range.End - 1) :
        \E i \in DOMAIN curr.ReservedRange :
            /\ n >= curr.ReservedRange[i].Start
            /\ n < curr.ReservedRange[i].End

rangeFound(prev_range, curr) ==
    \E i \in DOMAIN curr.ReservedRange :
        /\ prev_range.Start >= curr.ReservedRange[i].Start
        /\ prev_range.End <= curr.ReservedRange[i].End

diffReservedNumber(changes, prev_range, curr) ==
    IF ~rangeFound(prev_range, curr)
    THEN Add(changes, ProblemUnreservedFieldNumber(
             curr.Name, prev_range.Start, prev_range.End))
    ELSE changes

diffReservedNumbers(changes, prev, curr) ==
    LET loop[i \in 0..Len(prev.ReservedRange)] ==
            IF i = 0 THEN changes
            ELSE diffReservedNumber(loop[i - 1], prev.ReservedRange[i], curr)
    IN  loop[Len(prev.ReservedRange)]

diffMsg(changes, prev, curr) ==
    diffReservedNumbers(
        diffReservedNames(diffFields(changes, prev, curr), prev, curr),
        prev, curr)

\* ---------------------------------------------------------------- diffEnum

\* enumByNumber without the else branch: a value found neither by number nor
\* by name is not reported.
enumByNumberNoElse(changes, value, prev, curr) ==
    LET byvalue == MapIndex(Numbers(curr.Value))
        byname == MapIndex(Names(curr.Value))
    IN  IF value.Number \in DOMAIN byvalue THEN changes
        ELSE IF value.Name \in DOMAIN byname
             THEN Add(changes, ProblemChangeEnumValue(
                      prev.Name, value.Name, value.Number,
                      curr.Value[byname[value.Name]].Number))
             ELSE changes

\* First loop over previous.Value: the value's number is looked up in byvalue.
enumByNumber(changes, value, prev, curr) ==
    LET byvalue == MapIndex(Numbers(curr.Value))
        byname == MapIndex(Names(curr.Value))
    IN  IF value.Number \in DOMAIN byvalue THEN changes
        ELSE IF value.Name \in DOMAIN byname
             THEN Add(changes, ProblemChangeEnumValue(
                      prev.Name, value.Name, value.Number,
                      curr.Value[byname[value.Name]].Number))
             ELSE Add(changes, ProblemRemovedEnumValue(prev.Name, value.Name))

\* Second loop over previous.Value: the value's name is looked up in byname.
enumByName(changes, name, prev, curr) ==
    LET byvalue == MapIndex(Numbers(curr.Value))
        byname == MapIndex(Names(curr.Value))
    IN  IF name.Name \in DOMAIN byname THEN changes
        ELSE IF name.Number \in DOMAIN byvalue
             THEN Add(changes, ProblemChangeEnumName(
                      prev.Name, name.Number, name.Name,
                      curr.Value[byvalue[name.Number]].Name))
             ELSE changes

diffEnum(changes, prev, curr) ==
    LET first[i \in 0..Len(prev.Value)] ==
            IF i = 0 THEN changes
            ELSE enumByNumber(first[i - 1], prev.Value[i], prev, curr)
        second[i \in 0..Len(prev.Value)] ==
            IF i = 0 THEN first[Len(prev.Value)]
            ELSE enumByName(second[i - 1], prev.Value[i], prev, curr)
    IN  second[Len(prev.Value)]

\* ------------------------------------------------------------- diffService

diffMethod(changes, prev, previousSvc, currentSvc) ==
    LET curr == MapIndex(Names(currentSvc.Method))
        exists == prev.Name \in DOMAIN curr
        next == currentSvc.Method[curr[prev.Name]]
        r1 == IF ~CmpEqual(next.InputType, prev.InputType)
              THEN Add(changes, ProblemChangedService(
                       currentSvc.Name, "input", prev.Name, prev.InputType,
                       next.InputType))
              ELSE changes
        r2 == IF ~CmpEqual(next.OutputType, prev.OutputType)
              THEN Add(r1, ProblemChangedService(
                       currentSvc.Name, "output", prev.Name, prev.OutputType,
                       next.OutputType))
              ELSE r1
        r3 == IF ~CmpEqual(prev.ClientStreaming, next.ClientStreaming)
              THEN Add(r2, ProblemChangedServiceStreaming(
                       currentSvc.Name, prev.Name, "client",
                       prev.ClientStreaming, next.ClientStreaming))
              ELSE r2
        r4 == IF ~CmpEqual(prev.ServerStreaming, next.ServerStreaming)
              THEN Add(r3, ProblemChangedServiceStreaming(
                       currentSvc.Name, prev.Name, "server",
                       prev.ServerStreaming, next.ServerStreaming))
              ELSE r3
    IN  IF ~exists
        THEN Add(changes, ProblemRemovedServiceMethod(previousSvc.Name, prev.Name))
        ELSE r4

diffService(changes, prev, curr) ==
    LET loop[i \in 0..Len(prev.Method)] ==
            IF i = 0 THEN changes
            ELSE diffMethod(loop[i - 1], prev.Method[i], prev, curr)
    IN  loop[Len(prev.Method)]

\* ------------------------------------------------------------- diffPackage

\* The declarations of one kind of all the files of a package, in file order:
\* the order of the nested `for _, file := range ... { for _, x := range ...`.
RECURSIVE allEnums(_)
allEnums(files) ==
    IF files = <<>> THEN <<>>
    ELSE Head(files).EnumType \o allEnums(Tail(files))

RECURSIVE allServices(_)
allServices(files) ==
    IF files = <<>> THEN <<>>
    ELSE Head(files).Service \o allServices(Tail(files))

RECURSIVE allMessages(_)
allMessages(files) ==
    IF files = <<>> THEN <<>>
    ELSE Head(files).MessageType \o allMessages(Tail(files))

\* diffPackageEnums calling diffEnum(report, next, enum): the arguments swapped.
diffPackageEnumsSwapped(changes, prevFiles, currFiles) ==
    LET prev == allEnums(prevFiles)
        decls == allEnums(currFiles)
        curr == MapIndex(Names(decls))
        loop[i \in 0..Len(prev)] ==
            IF i = 0 THEN changes
            ELSE IF prev[i].Name \notin DOMAIN curr
                 THEN Add(loop[i - 1], ProblemRemovedEnum(prev[i].Name))
                 ELSE diffEnum(loop[i - 1], decls[curr[prev[i].Name]], prev[i])
    IN  loop[Len(prev)]

diffPackageEnums(changes, prevFiles, currFiles) ==
    LET prev == allEnums(prevFiles)
        decls == allEnums(currFiles)
        curr == MapIndex(Names(decls))
        loop[i \in 0..Len(prev)] ==
            IF i = 0 THEN changes
            ELSE IF prev[i].Name \notin DOMAIN curr
                 THEN Add(loop[i - 1], ProblemRemovedEnum(prev[i].Name))
                 ELSE diffEnum(loop[i - 1], prev[i], decls[curr[prev[i].Name]])
    IN  loop[Len(prev)]

diffPackageServices(changes, prevFiles, currFiles) ==
    LET prev == allServices(prevFiles)
        decls == allServices(currFiles)
        curr == MapIndex(Names(decls))
        loop[i \in 0..Len(prev)] ==
            IF i = 0 THEN changes
            ELSE IF prev[i].Name \notin DOMAIN curr
                 THEN Add(loop[i - 1], ProblemRemovedService(prev[i].Name))
                 ELSE diffService(loop[i - 1], prev[i], decls[curr[prev[i].Name]])
    IN  loop[Len(prev)]

\* diffPackageMessages indexing the messages of the first current file only.
diffPackageMessagesFirstFile(changes, prevFiles, currFiles) ==
    LET prev == allMessages(prevFiles)
        decls == allMessages(SubSeq(currFiles, 1, 1))
        curr == MapIndex(Names(decls))
        loop[i \in 0..Len(prev)] ==
            IF i = 0 THEN changes
            ELSE IF prev[i].Name \notin DOMAIN curr
                 THEN Add(loop[i - 1], ProblemRemovedMessage(prev[i].Name))
                 ELSE diffMsg(loop[i - 1], prev[i], decls[curr[prev[i].Name]])
    IN  loop[Len(prev)]

diffPackageMessages(changes, prevFiles, currFiles) ==
    LET prev == allMessages(prevFiles)
        decls == allMessages(currFiles)
        curr == MapIndex(Names(decls))
        loop[i \in 0..Len(prev)] ==
            IF i = 0 THEN changes
            ELSE IF prev[i].Name \notin DOMAIN curr
                 THEN Add(loop[i - 1], ProblemRemovedMessage(prev[i].Name))
                 ELSE diffMsg(loop[i - 1], prev[i], decls[curr[prev[i].Name]])
    IN  loop[Len(prev)]

diffPackage(changes, prevFiles, currFiles) ==
    diffPackageMessages(
        diffPackageServices(
            diffPackageEnums(changes, prevFiles, currFiles),
            prevFiles, currFiles),
        prevFiles, currFiles)

\* ---------------------------------------------------------- groupByPackage

groupByPackage(files) ==
    [p \in {files[i].Package : i \in DOMAIN files} |->
        SelectSeq(files, LAMBDA file : file.Package = p)]

\* ------------------------------------------------------------ descriptors

FieldDescriptorProto(name, number, type, typeName, label) ==
    [Name |-> name, Number |-> number, Type |-> type, TypeName |-> typeName,
     Label |-> label]

ReservedRange(start, end) == [Start |-> start, End |-> end]

DescriptorProto(name, fields, reservedNames, reservedRanges) ==
    [Name |-> name, Field |-> fields, ReservedName |-> reservedNames,
     ReservedRange |-> reservedRanges]

EnumValueDescriptorProto(name, number) == [Name |-> name, Number |-> number]

EnumDescriptorProto(name, values) == [Name |-> name, Value |-> values]

MethodDescriptorProto(name, input, output, clientStreaming, serverStreaming) ==
    [Name |-> name, InputType |-> input, OutputType |-> output,
     ClientStreaming |-> clientStreaming, ServerStreaming |-> serverStreaming]

ServiceDescriptorProto(name, methods) == [Name |-> name, Method |-> methods]

FileDescriptorProto(pkg, enums, services, messages) ==
    [Package |-> pkg, EnumType |-> enums, Service |-> services,
     MessageType |-> messages]

\* ----------------------------------------------------------------- inputs
\* The snapshots diffFiles is run on are what protoc emits: top-level names
\* are unique within a package, field numbers and names are unique within a
\* message, value names are unique within an enum (numbers may alias), method
\* names are unique within a service, reserved ranges are non-empty and
\* disjoint, and no field uses a reserved name or number.

SeqsUpTo(S, n) == UNION {[1..k -> S] : k \in 0..n}

Injective(f) == \A i, j \in DOMAIN f : f[i] = f[j] => i = j

Package == "p"

SingleFile(enums, services, messages) ==
    <<FileDescriptorProto(Package, enums, services, messages)>>

\* Messages that differ in one field's name, number, type and label.
FieldNames == {"a", "b"}

FieldTypes ==
    {<<"TYPE_STRING", Nil>>, <<"TYPE_MESSAGE", ".p.A">>,
     <<"TYPE_MESSAGE", ".p.B">>, <<"TYPE_ENUM", ".p.A">>}

FieldLabels == {"LABEL_OPTIONAL", "LABEL_REPEATED"}

Fields ==
    {FieldDescriptorProto(n, k, t[1], t[2], l) :
        n \in FieldNames, k \in 1..MaxNumber, t \in FieldTypes, l \in FieldLabels}

FieldSnapshots ==
    {SingleFile(<<>>, <<>>, <<>>)}
    \cup {SingleFile(<<>>, <<>>, <<DescriptorProto("M", fs, <<>>, <<>>)>>) :
            fs \in SeqsUpTo(Fields, 1)}

\* Messages that differ in their fields' identity and in what they reserve.
PlainField(n, k) ==
    FieldDescriptorProto(n, k, "TYPE_STRING", Nil, "LABEL_OPTIONAL")

PlainFields == {PlainField(n, k) : n \in FieldNames, k \in 1..MaxNumber}

Ranges ==
    {r \in {ReservedRange(s, e) : s \in 1..MaxNumber, e \in 2..(MaxNumber + 1)} :
        r.Start < r.End}

Disjoint(rs) ==
    \A i, j \in DOMAIN rs :
        i # j => (rs[i].End <= rs[j].Start \/ rs[j].End <= rs[i].Start)

WellFormedMessage(m) ==
    /\ Injective(Names(m.Field))
    /\ Injective(Numbers(m.Field))
    /\ Injective(m.ReservedName)
    /\ Disjoint(m.ReservedRange)
    /\ \A i \in DOMAIN m.Field :
        /\ \A j \in DOMAIN m.ReservedName : m.ReservedName[j] # m.Field[i].Name
        /\ \A j \in DOMAIN m.ReservedRange :
            ~ (/\ m.ReservedRange[j].Start <= m.Field[i].Number
               /\ m.Field[i].Number < m.ReservedRange[j].End)

ReservedMessages ==
    {m \in {DescriptorProto("M", fs, ns, rs) :
                fs \in SeqsUpTo(PlainFields, 2),
                ns \in SeqsUpTo(FieldNames, 2),
                rs \in SeqsUpTo(Ranges, MaxRanges)} :
        WellFormedMessage(m)}

ReservedSnapshots == {SingleFile(<<>>, <<>>, <<m>>) : m \in ReservedMessages}

\* Enums that differ in their values' names and numbers.
ValueNames == {"foo", "bar", "bat"}

Values ==
    {EnumValueDescriptorProto(n, k) : n \in ValueNames, k \in 1..MaxNumber}

EnumSnapshots ==
    {SingleFile(<<>>, <<>>, <<>>)}
    \cup {SingleFile(<<EnumDescriptorProto("FOO", vs)>>, <<>>, <<>>) :
            vs \in {v \in SeqsUpTo(Values, MaxValues) : Injective(Names(v))}}

\* Services that differ in one method's name, types and streaming flags.
MethodNames == {"Invoke", "Bar"}

TypeNames == {".p.A", ".p.B"}

Streaming == {Nil, "true", "false"}

Methods ==
    {MethodDescriptorProto(n, i, o, c, s) :
        n \in MethodNames, i \in TypeNames, o \in TypeNames,
        c \in Streaming, s \in Streaming}

ServiceSnapshots ==
    {SingleFile(<<>>, <<>>, <<>>)}
    \cup {SingleFile(<<>>, <<ServiceDescriptorProto("Foo", ms)>>, <<>>) :
            ms \in SeqsUpTo(Methods, 1)}

\* Snapshots of several files in several packages.
Packages == {"p", "q"}

HelloRequest(label) ==
    DescriptorProto("HelloRequest",
        <<FieldDescriptorProto("name", 1, "TYPE_STRING", Nil, label)>>,
        <<>>, <<>>)

FOO == EnumDescriptorProto("FOO", <<EnumValueDescriptorProto("bat", 1)>>)

Files ==
    {FileDescriptorProto(p, <<>>, <<>>, <<HelloRequest(l)>>) :
        p \in Packages, l \in FieldLabels}
    \cup {FileDescriptorProto(p, <<FOO>>, <<>>, <<>>) : p \in Packages}

WellFormedSnapshot(files) ==
    \A p \in DOMAIN groupByPackage(files) :
        /\ Injective(Names(allEnums(groupByPackage(files)[p])))
        /\ Injective(Names(allServices(groupByPackage(files)[p])))
        /\ Injective(Names(allMessages(groupByPackage(files)[p])))

FileSnapshots ==
    {files \in SeqsUpTo(Files, MaxFiles) : WellFormedSnapshot(files)}

\* ---------------------------------------------------------------- actions

NoError == [nil |-> TRUE]

\* fmt.Errorf("found %d problems: %s", len(report.Changes), report.Changes)
Errorf(changes) == [nil |-> FALSE, N |-> Len(changes), Changes |-> changes]

\* returnedError with the test len(report.Changes) > 1.
returnedErrorOffByOne(changes) ==
    IF Len(changes) > 1 THEN Errorf(changes) ELSE NoError

returnedError(changes) ==
    IF Len(changes) > 0 THEN Errorf(changes) ELSE NoError

InitOn(snapshots) ==
    /\ previous \in snapshots
    /\ current \in snapshots
    /\ report = <<>>
    /\ err = NoError
    /\ pc = "start"
    /\ prev_by_package = <<>>
    /\ curr_by_package = <<>>
    /\ pending = {}
    /\ earlier = <<>>
    /\ reordered = FALSE

\* diffFiles up to its range loop.
DiffFiles ==
    /\ pc = "start"
    /\ report' = <<>>
    /\ err' = NoError
    /\ prev_by_package' = groupByPackage(previous)
    /\ curr_by_package' = groupByPackage(current)
    /\ pending' = DOMAIN groupByPackage(previous)
    /\ pc' = "packages"
    /\ UNCHANGED <<previous, current, earlier, reordered>>

\* One round of `for package_name, files := range prev_by_package`: Go visits
\* the keys of a map in an unspecified order.
visitPackage(changes, package_name) ==
    IF package_name \notin DOMAIN curr_by_package
    THEN Add(changes, ProblemRemovedPackage(package_name))
    ELSE diffPackage(changes, prev_by_package[package_name],
                     curr_by_package[package_name])

RangePackages ==
    /\ pc = "packages"
    /\ \E package_name \in pending :
        /\ report' = visitPackage(report, package_name)
        /\ pending' = pending \ {package_name}
    /\ UNCHANGED <<previous, current, err, pc, prev_by_package,
                   curr_by_package, earlier, reordered>>

\* diffFiles after its range loop.
Return ==
    /\ pc = "packages"
    /\ pending = {}
    /\ err' = returnedError(report)
    /\ pc' = "done"
    /\ UNCHANGED <<previous, current, report, prev_by_package,
                   curr_by_package, pending, earlier, reordered>>

\* DiffSet is called a second time on the same two sets.
DiffSetAgain ==
    /\ pc = "done"
    /\ earlier = <<>>
    /\ earlier' = <<report>>
    /\ reordered' = FALSE
    /\ pc' = "start"
    /\ UNCHANGED <<previous, current, report, err, prev_by_package,
                   curr_by_package, pending>>

Reorderings(files) ==
    {[i \in DOMAIN files |-> files[f[i]]] : f \in Permutations(DOMAIN files)}

\* DiffSet is called a second time on the same files given in another order.
DiffSetReordered ==
    /\ pc = "done"
    /\ earlier = <<>>
    /\ \E p \in Reorderings(previous), c \in Reorderings(current) :
        /\ <<p, c>> # <<previous, current>>
        /\ previous' = p
        /\ current' = c
    /\ earlier' = <<report>>
    /\ reordered' = TRUE
    /\ pc' = "start"
    /\ UNCHANGED <<report, err, prev_by_package, curr_by_package, pending>>

NextDiff == DiffFiles \/ RangePackages \/ Return

Next == DiffFiles \/ RangePackages \/ Return \/ DiffSetAgain \/ DiffSetReordered

AllSnapshots ==
    {FieldSnapshots, ReservedSnapshots, EnumSnapshots, ServiceSnapshots,
     FileSnapshots}

\* Every family of snapshots, one diff.
Init == \E snapshots \in AllSnapshots : InitOn(snapshots)

Spec == Init /\ [][NextDiff]_vars

SpecFields == InitOn(FieldSnapshots) /\ [][NextDiff]_vars

SpecReserved == InitOn(ReservedSnapshots) /\ [][NextDiff]_vars

SpecEnum == InitOn(EnumSnapshots) /\ [][NextDiff]_vars

SpecService == InitOn(ServiceSnapshots) /\ [][NextDiff]_vars

\* Several files and packages, diffed twice.
SpecFiles == InitOn(FileSnapshots) /\ [][Next]_vars

\* ------------------------------------------------- what the claims speak of

Range(s) == {s[i] : i \in DOMAIN s}

\* How many times a problem was added to the report.
Occurrences(changes, ch) == Cardinality({i \in DOMAIN changes : changes[i] = ch})

KindsOf(changes) == {changes[i].kind : i \in DOMAIN changes}

PackagesInBoth ==
    DOMAIN groupByPackage(previous) \cap DOMAIN groupByPackage(current)

\* The pairs <<previous declaration, current declaration of the same name>>
\* of the packages that both snapshots have.
SameNamed(prevDecls, currDecls) ==
    {pair \in Range(prevDecls) \X Range(currDecls) : pair[1].Name = pair[2].Name}

MatchedMessages ==
    UNION {SameNamed(allMessages(groupByPackage(previous)[p]),
                     allMessages(groupByPackage(current)[p])) : p \in PackagesInBoth}

MatchedEnums ==
    UNION {SameNamed(allEnums(groupByPackage(previous)[p]),
                     allEnums(groupByPackage(current)[p])) : p \in PackagesInBoth}

MatchedServices ==
    UNION {SameNamed(allServices(groupByPackage(previous)[p]),
                     allServices(groupByPackage(current)[p])) : p \in PackagesInBoth}

Done == pc = "done"

\* ---------------------------------------------------------------------- C1
\* C1: diffing a snapshot against an identical copy of itself returns a
\* Report with no Changes and a nil error.
C1_Reflexive ==
    (Done /\ previous = current) => (report = <<>> /\ err = NoError)

\* An identical pair whose message reserves names and ranges has been diffed.
C1_Witness ==
    /\ Done
    /\ previous = current
    /\ \E pair \in MatchedMessages :
        /\ pair[1].ReservedRange # <<>>
        /\ pair[1].ReservedName # <<>>
        /\ pair[1].Field # <<>>

\* ---------------------------------------------------------------------- C2
NameReserved(message, field) == field.Name \in Range(message.ReservedName)

\* The number lies in a reserved range [Start, End).
NumberReserved(message, field) ==
    \E r \in Range(message.ReservedRange) :
        r.Start <= field.Number /\ field.Number < r.End

AbsentFields(pair) ==
    {f \in Range(pair[1].Field) : f.Number \notin Range(Numbers(pair[2].Field))}

\* C2: a previous field whose number is absent from the current message
\* yields no 'field removed' iff its name is reserved and its number lies in
\* a current reserved range [start, end); otherwise exactly one is reported.
C2_RemovedUnlessReserved ==
    Done =>
        \A pair \in MatchedMessages : \A f \in AbsentFields(pair) :
            Occurrences(report, ProblemRemovedField(pair[2].Name, f.Name))
                = IF NameReserved(pair[2], f) /\ NumberReserved(pair[2], f)
                  THEN 0 ELSE 1

\* ---------------------------------------------------------------------- C3
ContainedInOne(prev_range, message) ==
    \E r \in Range(message.ReservedRange) :
        prev_range.Start >= r.Start /\ prev_range.End <= r.End

CoveredByUnion(prev_range, message) ==
    \A n \in prev_range.Start..(prev_range.End - 1) :
        \E r \in Range(message.ReservedRange) : r.Start <= n /\ n < r.End

\* C3: a previous reserved range of a message that still exists yields
\* exactly one 'un-reserved field number(s)' iff no single current range
\* contains it, also when several current ranges together cover it.
C3_UnreservedUnlessContained ==
    Done =>
        \A pair \in MatchedMessages : \A r \in Range(pair[1].ReservedRange) :
            Occurrences(report,
                ProblemUnreservedFieldNumber(pair[2].Name, r.Start, r.End))
                = IF ContainedInOne(r, pair[2]) THEN 0 ELSE 1

\* A previous range split over two adjacent current ranges has been reported.
C3_Witness ==
    /\ Done
    /\ \E pair \in MatchedMessages : \E r \in Range(pair[1].ReservedRange) :
        /\ CoveredByUnion(r, pair[2])
        /\ ~ContainedInOne(r, pair[2])
        /\ Occurrences(report,
               ProblemUnreservedFieldNumber(pair[2].Name, r.Start, r.End)) = 1

\* ---------------------------------------------------------------------- C4
\* C4: the error is non-nil iff the Report holds at least one Change, and the
\* count in 'found N problems' is the number of Changes.
C4_ErrorIffChanges ==
    Done =>
        /\ (err # NoError) <=> (Len(report) > 0)
        /\ err # NoError => err.N = Len(report)

\* A diff that found several problems has returned.
C4_Witness == Done /\ Len(report) >= 2 /\ err # NoError

\* ---------------------------------------------------------------------- C5
Removals ==
    {"RemovedPackage", "RemovedEnum", "RemovedService", "RemovedMessage",
     "RemovedField", "RemovedEnumValue", "RemovedServiceMethod"}

\* Every declaration of `old` is in `new` with the same name and, inside it,
\* every field, value and method of `old` unchanged: `new` is `old` with
\* packages, messages, enums, services, methods, fields or values added.
SubEnums(oldDecls, newDecls) ==
    \A d \in Range(oldDecls) : \E e \in Range(newDecls) :
        /\ e.Name = d.Name
        /\ Range(d.Value) \subseteq Range(e.Value)

SubServices(oldDecls, newDecls) ==
    \A d \in Range(oldDecls) : \E e \in Range(newDecls) :
        /\ e.Name = d.Name
        /\ Range(d.Method) \subseteq Range(e.Method)

SubMessages(oldDecls, newDecls) ==
    \A d \in Range(oldDecls) : \E e \in Range(newDecls) :
        /\ e.Name = d.Name
        /\ Range(d.Field) \subseteq Range(e.Field)
        /\ d.ReservedName = e.ReservedName
        /\ d.ReservedRange = e.ReservedRange

Extends(old, new) ==
    \A p \in DOMAIN groupByPackage(old) :
        /\ p \in DOMAIN groupByPackage(new)
        /\ SubEnums(allEnums(groupByPackage(old)[p]),
                    allEnums(groupByPackage(new)[p]))
        /\ SubServices(allServices(groupByPackage(old)[p]),
                       allServices(groupByPackage(new)[p]))
        /\ SubMessages(allMessages(groupByPackage(old)[p]),
                       allMessages(groupByPackage(new)[p]))

\* `new` adds something to `old` and changes nothing else.
AddsTo(old, new) == Extends(old, new) /\ ~Extends(new, old)

\* An 'enum name changed' for a previous value that the current enum lacks
\* while another current value holds its number.
AliasDropped(ch) ==
    /\ ch.kind = "ChangeEnumName"
    /\ \E pair \in MatchedEnums :
        /\ pair[1].Name = ch.Enum
        /\ EnumValueDescriptorProto(ch.OldName, ch.Number) \in Range(pair[1].Value)
        /\ EnumValueDescriptorProto(ch.OldName, ch.Number) \notin Range(pair[2].Value)
        /\ ch.Number \in Range(Numbers(pair[2].Value))

\* C5 as stated: an additive change yields an empty Report, and the reverse
\* diff reports at least one removal.
C5_AdditiveSilentReverseRemoval ==
    Done =>
        /\ AddsTo(previous, current) => report = <<>>
        /\ AddsTo(current, previous) => KindsOf(report) \cap Removals # {}

\* C5 as amended: an additive change yields an empty Report, and the reverse
\* diff reports at least one problem: a removal, or an 'enum name changed'
\* for an added enum value whose number the enum already used.
C5_AdditiveSilentReverseReported ==
    Done =>
        /\ AddsTo(previous, current) => report = <<>>
        /\ AddsTo(current, previous) =>
            \E i \in DOMAIN report :
                report[i].kind \in Removals \/ AliasDropped(report[i])

\* A diff whose current enum only adds a value under a number already in use
\* has returned.
C5_Witness ==
    /\ Done
    /\ AddsTo(previous, current)
    /\ report = <<>>
    /\ \E pair \in MatchedEnums :
        \E v \in Range(pair[2].Value) \ Range(pair[1].Value) :
            v.Number \in Range(Numbers(pair[1].Value))

\* ---------------------------------------------------------------------- C6
RECURSIVE BagOf(_)
BagOf(changes) ==
    IF changes = <<>> THEN EmptyBag
    ELSE BagOf(Tail(changes)) (+) SetToBag({Head(changes)})

\* C6: giving the files of either snapshot in another order (files within a
\* package, packages within the snapshot) does not change the multiset of
\* Changes.
C6_OrderInvariant ==
    (Done /\ earlier # <<>>) => BagOf(report) = BagOf(earlier[1])

\* Reordered files have been diffed and the problems came in another order.
C6_Witness ==
    /\ Done
    /\ earlier # <<>>
    /\ reordered
    /\ Len(report) >= 2
    /\ report # earlier[1]

\* ---------------------------------------------------------------------- C7
\* The number the current enum holds under a name.
NumberOf(enum, name) ==
    (CHOOSE v \in Range(enum.Value) : v.Name = name).Number

\* C7: a previous enum value whose name is still in the current enum under
\* another number yields exactly one 'enum value changed' (old number -> the
\* number now under that name), and neither 'enum value removed' nor 'enum
\* name changed'.
C7_RenumberReportedOnce ==
    Done =>
        \A pair \in MatchedEnums : \A v \in Range(pair[1].Value) :
            (/\ v.Name \in Range(Names(pair[2].Value))
             /\ NumberOf(pair[2], v.Name) # v.Number)
            =>
            /\ Occurrences(report,
                   ProblemChangeEnumValue(pair[1].Name, v.Name, v.Number,
                                          NumberOf(pair[2], v.Name))) = 1
            /\ Occurrences(report,
                   ProblemRemovedEnumValue(pair[1].Name, v.Name)) = 0
            /\ \A i \in DOMAIN report :
                ~ (/\ report[i].kind = "ChangeEnumName"
                   /\ report[i].OldName = v.Name)

\* ---------------------------------------------------------------------- C8
\* C8: two diffs of the same pair of snapshots return the same Changes in
\* the same order.
C8_Deterministic ==
    (Done /\ earlier # <<>> /\ ~reordered) => report = earlier[1]

\* ---------------------------------------------------------------------- C9
MatchedMethods ==
    UNION {{m \in Range(pair[1].Method) \X Range(pair[2].Method) :
                m[1].Name = m[2].Name} : pair \in MatchedServices}

StreamingReports(method, side) ==
    {i \in DOMAIN report :
        /\ report[i].kind = "ChangedServiceStreaming"
        /\ report[i].Name = method
        /\ report[i].Side = side}

\* C9: for a method matched by name, 'service streaming changed' is reported
\* for a side iff the flag is set on one side and absent on the other; two
\* flags that are both set never yield a problem, and the booleans a
\* reported problem renders differ.
C9_StreamingByPresence ==
    Done =>
        \A m \in MatchedMethods :
            /\ (StreamingReports(m[1].Name, "client") # {})
                 <=> ((m[1].ClientStreaming = Nil) # (m[2].ClientStreaming = Nil))
            /\ (StreamingReports(m[1].Name, "server") # {})
                 <=> ((m[1].ServerStreaming = Nil) # (m[2].ServerStreaming = Nil))
            /\ \A i \in StreamingReports(m[1].Name, "client")
                        \cup StreamingReports(m[1].Name, "server") :
                 StreamingRendered(report[i])[1] # StreamingRendered(report[i])[2]

\* --------------------------------------------------------------------- C10
MatchedFields ==
    UNION {{<<pair[2].Name, f, g>> :
                <<f, g>> \in {fg \in Range(pair[1].Field) \X Range(pair[2].Field) :
                                fg[1].Number = fg[2].Number}} :
           pair \in MatchedMessages}

TypeReports(field) ==
    {i \in DOMAIN report :
        /\ report[i].kind \in {"ChangedFieldType", "ChangedFieldComplexType"}
        /\ report[i].Field = field}

Flag(b) == IF b THEN 1 ELSE 0

\* C10: for a field matched by number, at most one of 'field type changed'
\* and 'field reference type changed' is reported: the first iff the kinds
\* differ, the second iff the kinds are equal, both sides carry a type name
\* and the names differ; 'field renamed' and 'field label changed' are
\* reported iff name, resp. label, differ, whatever the type outcome.
C10_TypeOrReference ==
    Done =>
        \A t \in MatchedFields :
            LET msg == t[1]
                f == t[2]
                g == t[3]
            IN  /\ Cardinality(TypeReports(f.Name)) <= 1
                /\ Occurrences(report,
                       ProblemChangedFieldType(msg, f.Name, f.Type, g.Type))
                     = Flag(f.Type # g.Type)
                /\ Occurrences(report,
                       ProblemChangedFieldComplexType(msg, f.Name, f.TypeName,
                                                      g.TypeName))
                     = Flag(/\ f.Type = g.Type
                            /\ f.TypeName # Nil
                            /\ g.TypeName # Nil
                            /\ f.TypeName # g.TypeName)
                /\ Occurrences(report,
                       ProblemChangedFieldName(msg, f.Number, f.Name, g.Name))
                     = Flag(f.Name # g.Name)
                /\ Occurrences(report,
                       ProblemChangedFieldLabel(msg, f.Name, f.Label, g.Label))
                     = Flag(f.Label # g.Label)

\* A matched field whose name, referenced type and label all changed has
\* been diffed: three problems, one of them the reference type.
C10_Witness ==
    /\ Done
    /\ \E t \in MatchedFields :
        /\ t[2].Type = t[3].Type
        /\ t[2].TypeName # t[3].TypeName
        /\ t[2].Name # t[3].Name
        /\ t[2].Label # t[3].Label
        /\ KindsOf(report) =
             {"ChangedFieldName", "ChangedFieldComplexType", "ChangedFieldLabel"}

\* --------------------------------------------------------------------- C11
\* What the report says about the previous value of that name.
RemovedReports(enum, name) ==
    Occurrences(report, ProblemRemovedEnumValue(enum, name))

RenameOrRenumberReports(name) ==
    {i \in DOMAIN report :
        \/ report[i].kind = "ChangeEnumName" /\ report[i].OldName = name
        \/ report[i].kind = "ChangeEnumValue" /\ report[i].Name = name}

\* The current enum has a value under a new name and another number: what a
\* previous value changed in both name and number has become.
ChangedInBoth(pair, v) ==
    /\ v.Name \notin Range(Names(pair[2].Value))
    /\ \E w \in Range(pair[2].Value) :
        /\ w.Name \notin Range(Names(pair[1].Value))
        /\ w.Number # v.Number

\* C11 as stated: a previous value changed in both name and number (its name
\* is absent from the current enum) yields exactly one 'enum value removed'
\* and neither 'enum name changed' nor 'enum value changed', whatever other
\* values the current enum contains.
C11_BothChangedRemoved ==
    Done =>
        \A pair \in MatchedEnums : \A v \in Range(pair[1].Value) :
            ChangedInBoth(pair, v) =>
                /\ RemovedReports(pair[1].Name, v.Name) = 1
                /\ RenameOrRenumberReports(v.Name) = {}

\* C11 as amended: the same, provided no current value holds the previous
\* value's number.
C11_BothChangedNumberFreeRemoved ==
    Done =>
        \A pair \in MatchedEnums : \A v \in Range(pair[1].Value) :
            (/\ ChangedInBoth(pair, v)
             /\ v.Number \notin Range(Numbers(pair[2].Value)))
            =>
                /\ RemovedReports(pair[1].Name, v.Name) = 1
                /\ RenameOrRenumberReports(v.Name) = {}

\* A value changed in both name and number, its old number now unused, has
\* been reported as removed beside another current value.
C11_Witness ==
    /\ Done
    /\ \E pair \in MatchedEnums : \E v \in Range(pair[1].Value) :
        /\ ChangedInBoth(pair, v)
        /\ v.Number \notin Range(Numbers(pair[2].Value))
        /\ Len(pair[2].Value) >= 2
        /\ RemovedReports(pair[1].Name, v.Name) = 1

====
